---------------------------- MODULE Spec2Model ----------------------------
(***************************************************************************)
(* A model of the Calculatorwebapp repository: the four-operation          *)
(* arithmetic service (src/app) and the delivery-metrics scripts           *)
(* (src/metrics).  The programs share no runtime, so each has its own      *)
(* specification over its own variables; the variables of the other        *)
(* programs are held at their idle values.                                 *)
(*                                                                         *)
(*   SpecCalc   the pure functions of src/app/calculator.py                *)
(*   SpecApi    the request handlers of src/app/main.py                    *)
(*   SpecRun    one run of src/metrics/main.py: main, collect_all_metrics  *)
(*              and the paginated GET loop                                 *)
(*   SpecRunFair  the same run, in which every step of the program that    *)
(*              can be taken is taken; when a GET is answered is the       *)
(*              server's doing                                             *)
(*   SpecAgg    the aggregations of src/metrics/main.py applied to a       *)
(*              fetched list                                               *)
(*   SpecRender one run of src/metrics/render_dashboard.py                 *)
(*                                                                         *)
(* A Python float is a double, kept digit by digit, and the operations on  *)
(* floats are those of the machine: the exact result rounded once to the   *)
(* nearest double, a tie to the even one, with the subnormal doubles, the  *)
(* overflow to an infinity, the two zeros and nan.  The inputs are halves  *)
(* (n/2), tenths that are no doubles (0.1, 0.2, 0.3, 0.7, 1.1), -0.0, two  *)
(* numbers at the ends of the range, and the values that are no finite     *)
(* number.  The aggregations round their floats to two decimals, which     *)
(* goes by the digits of the double as well (see there).                   *)
(***************************************************************************)
EXTENDS Integers, Sequences, FiniteSets, TLC

VARIABLES
  \* src/app/calculator.py: one call of a pure function
  call,          \* the call made: [fn, a, b], or NoCall
  ret,           \* how the call ended: a return value or a raised exception
  \* src/app/main.py: the service
  settings,      \* the module-level cached Settings object
  request,       \* the request last served
  response,      \* its response: [status, body]
  invoked,       \* the calculator functions the handler invoked for it
  prev_status,   \* history: the status of the response before this one
  \* src/metrics/main.py: one run of main
  pc,            \* where the run is: "loop", "wait", "returned", "write",
                 \* "done" or "raised"
  fetch,         \* which of the run's _get_paginated calls is under way
  params,        \* its params: [per_page, page]
  all_items,     \* its accumulator
  in_flight,     \* the pages requested and not yet answered
  gets,          \* the GETs of the call that have ended: [page, per_page,
                 \* status, body], the status 0 when no answer came
  collected,     \* the groups collect_all_metrics has computed so far
  metrics,       \* main's metrics: the report, once collect_all_metrics returns
  site,          \* the files written under site/
  failed,        \* history: some GET of the run did not succeed (no
                 \* answer, a status from 400 on, or a body that is no
                 \* JSON)
  prev_page,     \* history: params["page"] when the call before this one
                 \* returned (0 in the first call)
  \* src/metrics/main.py: one aggregation applied to a fetched list
  all_runs,      \* the workflow runs _get_paginated returned
  prs,           \* the pull requests _get_paginated returned
  window_start,  \* _get_window_start(): now - window_days
  agg,           \* the aggregation applied, or "none"
  summary,       \* the mapping it returned
  \* src/metrics/render_dashboard.py: one run of main
  template,      \* templates/index.html beside the script: its content, or
                 \* Absent
  site_dir,      \* the directory site/: [exists, index], index the content
                 \* of site/index.html, or Absent
  rendered       \* how the run ended: "no" (not yet), "done" or "raised"

calcVars == <<call, ret>>
apiVars  == <<settings, request, response, invoked, prev_status>>
runVars  == <<pc, fetch, params, all_items, in_flight, gets, collected,
              metrics, site, failed, prev_page>>
aggVars  == <<all_runs, prs, window_start, agg, summary>>
renderVars == <<template, site_dir, rendered>>
vars     == <<calcVars, apiVars, runVars, aggVars, renderVars>>

---------------------------------------------------------------------------
(* Python floats.                                                          *)
(*                                                                         *)
(* A float is a double.  A finite one is kept digit by digit: its sign (1  *)
(* for minus), its binary digits from the first 1 to the last 1, at most   *)
(* 53 of them, and the exponent of the first digit, so that <<1, 1>> with  *)
(* exponent 0 is 1.5 and with exponent -1 is 0.75; zero has no digits.     *)
(* Whole numbers of any size are sequences of binary digits as well, the   *)
(* most significant first and no zero in front; <<>> is 0.                 *)

Abs(x) == IF x < 0 THEN -x ELSE x

Zeros(k) == [i \in 1..k |-> 0]

\* The last k digits, and the digits before them.
Low(b, k) == IF Len(b) <= k THEN b ELSE SubSeq(b, Len(b) - k + 1, Len(b))
High(b, k) == IF Len(b) <= k THEN <<>> ELSE SubSeq(b, 1, Len(b) - k)

\* The digits without the zeros in front, and without the zeros at the end.
Strip(b) ==
  IF \A i \in 1..Len(b) : b[i] = 0 THEN <<>>
  ELSE SubSeq(b, CHOOSE i \in 1..Len(b) :
                   b[i] = 1 /\ \A j \in 1..(i - 1) : b[j] = 0, Len(b))
StripEnd(b) ==
  IF \A i \in 1..Len(b) : b[i] = 0 THEN <<>>
  ELSE SubSeq(b, 1, CHOOSE i \in 1..Len(b) :
                      b[i] = 1 /\ \A j \in (i + 1)..Len(b) : b[j] = 0)

\* The four binary digits of a number below 16.
Nibble(v) == <<v \div 8, (v \div 4) % 2, (v \div 2) % 2, v % 2>>

\* The last k binary digits of v, four at a time.
RECURSIVE Digits(_, _)
Digits(v, k) ==
  IF k <= 4 THEN Low(Nibble(v % 16), k)
  ELSE Digits(v \div 16, k - 4) \o Nibble(v % 16)

\* The binary digits of a natural number, the most significant first.
Binary(n) == Strip(Digits(n, 32))

\* The natural number with the binary digits b, four at a time.
RECURSIVE Value(_)
Value(b) ==
  IF Len(b) <= 4
    THEN LET d == Zeros(4 - Len(b)) \o b
         IN  8 * d[1] + 4 * d[2] + 2 * d[3] + d[4]
    ELSE 16 * Value(High(b, 4)) + Value(Low(b, 4))

\* b + 1 in as many digits as b has (all zeros when every digit was a one).
Incr(b) ==
  IF \A i \in 1..Len(b) : b[i] = 1 THEN Zeros(Len(b))
  ELSE LET k == CHOOSE i \in 1..Len(b) :
                  b[i] = 0 /\ \A j \in (i + 1)..Len(b) : b[j] = 1
       IN  SubSeq(b, 1, k - 1) \o <<1>> \o Zeros(Len(b) - k)

\* m < n, for whole numbers.
NLess(m, n) ==
  \/ Len(m) < Len(n)
  \/ /\ Len(m) = Len(n)
     /\ \E i \in 1..Len(m) : /\ m[i] < n[i]
                             /\ \A j \in 1..(i - 1) : m[j] = n[j]

\* m + n + carry, worked out 24 digits at a time from the low end.
RECURSIVE NAddC(_, _, _)
NAddC(m, n, carry) ==
  IF n = <<>> /\ carry = 0 THEN m
  ELSE IF m = <<>> /\ carry = 0 THEN n
  ELSE LET t == Value(Low(m, 24)) + Value(Low(n, 24)) + carry
       IN  IF Len(m) <= 24 /\ Len(n) <= 24 THEN Binary(t)
           ELSE IF t >= 16777216
             THEN NAddC(High(m, 24), High(n, 24), 1) \o Digits(t - 16777216, 24)
             ELSE NAddC(High(m, 24), High(n, 24), 0) \o Digits(t, 24)

\* The digits of m - n - borrow, where m >= n + borrow, 24 at a time.
RECURSIVE NSubB(_, _, _)
NSubB(m, n, borrow) ==
  IF n = <<>> /\ borrow = 0 THEN m
  ELSE LET t == Value(Low(m, 24)) - Value(Low(n, 24)) - borrow
       IN  IF Len(m) <= 24 THEN Binary(t)
           ELSE IF t < 0
             THEN NSubB(High(m, 24), High(n, 24), 1) \o Digits(t + 16777216, 24)
             ELSE NSubB(High(m, 24), High(n, 24), 0) \o Digits(t, 24)

\* m - n, where m >= n.
NSub(m, n) == Strip(NSubB(m, n, 0))

\* m * c + carry for a whole number m and c, carry below 4096, worked out
\* 12 digits of m at a time.
RECURSIVE NTimes(_, _, _)
NTimes(m, c, carry) ==
  LET t == Value(Low(m, 12)) * c + carry
  IN  IF Len(m) <= 12 THEN Binary(t)
      ELSE NTimes(High(m, 12), c, t \div 4096) \o Digits(t % 4096, 12)

\* m * n, 12 digits of n at a time.
RECURSIVE NMul(_, _)
NMul(m, n) ==
  IF m = <<>> \/ n = <<>> THEN <<>>
  ELSE LET rest == NMul(m, High(n, 12))
           c == Value(Low(n, 12))
           shifted == IF rest = <<>> THEN <<>> ELSE rest \o Zeros(12)
       IN  IF c = 0 THEN shifted ELSE NAddC(shifted, NTimes(m, c, 0), 0)

\* The binary digits of r / d after the point, where 0 <= r < d, four at a
\* time: at most 4 n of them, none once nothing is left, and after the
\* last a 1 that tells that something is left.  The next four are the
\* digits of the number of times d goes into 16 r.
RECURSIVE DivDigits(_, _, _)
DivDigits(r, d, n) ==
  IF r = <<>> THEN <<>>
  ELSE IF n = 0 THEN <<1>>
  ELSE LET r16 == r \o Zeros(4)
           q == Cardinality({ k \in 1..15 : ~NLess(r16, NTimes(d, k, 0)) })
       IN  IF q = 0 THEN Nibble(0) \o DivDigits(r16, d, n - 1)
           ELSE Nibble(q) \o DivDigits(NSub(r16, NTimes(d, q, 0)), d, n - 1)

Signed(class, sign) == [class |-> class, sign |-> sign, exp |-> 0, bits |-> <<>>]

\* 0.0 and -0.0, float("inf"), float("-inf") and float("nan").
Zero    == Signed("finite", 0)
NegZero == Signed("finite", 1)
Inf     == Signed("inf", 0)
NegInf  == Signed("inf", 1)
NaN     == Signed("nan", 0)

IsFinite(x) == x.class = "finite"
IsZero(x) == x.class = "finite" /\ x.bits = <<>>

\* The double with the digits b (b[1] worth 2^e): an infinity from 2^1024
\* on; the zeros at the end are not kept.
Finite(sign, e, b) ==
  LET digits == StripEnd(b)
  IN  IF digits = <<>> THEN Signed("finite", sign)
      ELSE IF e >= 1024 THEN Signed("inf", sign)
      ELSE [class |-> "finite", sign |-> sign, exp |-> e, bits |-> digits]

\* The double nearest to the number with the digits b (b[1] = 1, worth
\* 2^e), a tie going to the even one: 53 digits are kept, fewer below
\* 2^-1022, where the doubles are 2^-1074 apart.
Round(sign, e, b) ==
  LET p == IF e >= -1022 THEN 53 ELSE e + 1075
  IN  IF p < 0 THEN Signed("finite", sign)
      ELSE IF Len(b) <= p THEN Finite(sign, e, b)
      ELSE LET keep == SubSeq(b, 1, p)
               guard == b[p + 1] = 1
               sticky == \E i \in (p + 2)..Len(b) : b[i] = 1
               odd == p > 0 /\ b[p] = 1
               inc == Incr(keep)
           IN  IF ~(guard /\ (sticky \/ odd)) THEN Finite(sign, e, keep)
               ELSE IF p > 0 /\ inc[1] = 1 THEN Finite(sign, e, inc)
               ELSE Finite(sign, e + 1, <<1>>)

\* float(n) * 2^k, for an int n.
Dyadic(n, k) ==
  IF n = 0 THEN Zero
  ELSE LET b == Binary(Abs(n))
       IN  Round(IF n < 0 THEN 1 ELSE 0, k + Len(b) - 1, b)


\* The exponent of the last digit of a finite float that is not zero.
Unit(x) == x.exp - (Len(x.bits) - 1)

\* Whether the signs of x and y differ, as 0 or 1: the sign of x * y, x / y.
SignOf(x, y) == IF x.sign = y.sign THEN 0 ELSE 1

\* -x
FNeg(x) == IF x = NaN THEN NaN ELSE [x EXCEPT !.sign = 1 - x.sign]

\* Python's a + b.  Of two finite floats more than 64 binary places apart
\* the smaller is less than a quarter of a unit in the last place of the
\* larger and is rounded away; otherwise the two are added, or the smaller
\* taken from the larger, exactly, and the result rounded once.
FAdd(x, y) ==
  IF x = NaN \/ y = NaN THEN NaN
  ELSE IF ~IsFinite(x) THEN (IF ~IsFinite(y) /\ y # x THEN NaN ELSE x)
  ELSE IF ~IsFinite(y) THEN y
  ELSE IF IsZero(x) /\ IsZero(y)
    THEN (IF x.sign = 1 /\ y.sign = 1 THEN NegZero ELSE Zero)
  ELSE IF IsZero(x) THEN y
  ELSE IF IsZero(y) THEN x
  ELSE IF x.exp - y.exp > 64 THEN x
  ELSE IF y.exp - x.exp > 64 THEN y
  ELSE LET u == IF Unit(x) < Unit(y) THEN Unit(x) ELSE Unit(y)
           m == x.bits \o Zeros(Unit(x) - u)
           n == y.bits \o Zeros(Unit(y) - u)
       IN  IF x.sign = y.sign
             THEN LET s == NAddC(m, n, 0) IN Round(x.sign, u + Len(s) - 1, s)
           ELSE IF m = n THEN Zero
           ELSE IF NLess(m, n)
             THEN LET d == NSub(n, m) IN Round(y.sign, u + Len(d) - 1, d)
             ELSE LET d == NSub(m, n) IN Round(x.sign, u + Len(d) - 1, d)

\* Python's a - b
FSub(x, y) == FAdd(x, FNeg(y))

\* Python's a * b: the exact product, rounded once.
FMul(x, y) ==
  IF x = NaN \/ y = NaN THEN NaN
  ELSE IF ~IsFinite(x) \/ ~IsFinite(y)
    THEN (IF IsZero(x) \/ IsZero(y) THEN NaN ELSE Signed("inf", SignOf(x, y)))
  ELSE IF IsZero(x) \/ IsZero(y) THEN Signed("finite", SignOf(x, y))
  ELSE LET p == IF Len(x.bits) < Len(y.bits) THEN NMul(y.bits, x.bits)
                ELSE NMul(x.bits, y.bits)
       IN  Round(SignOf(x, y), Unit(x) + Unit(y) + Len(p) - 1, p)

\* Python's a / b, which raises ZeroDivisionError when b is zero: the
\* quotient to 57 binary digits and whether anything is left, rounded once.
\* The digits of a and b are lined up first, and those of a moved one place
\* more when that leaves a below b, so that the first digit is a 1.
FDiv(x, y) ==
  IF IsZero(y) THEN Signed("ZeroDivisionError", 0)
  ELSE IF x = NaN \/ y = NaN THEN NaN
  ELSE IF ~IsFinite(x)
    THEN (IF ~IsFinite(y) THEN NaN ELSE Signed("inf", SignOf(x, y)))
  ELSE IF ~IsFinite(y) \/ IsZero(x) THEN Signed("finite", SignOf(x, y))
  ELSE LET m == x.bits \o Zeros(Len(y.bits) - Len(x.bits))
           n == y.bits \o Zeros(Len(x.bits) - Len(y.bits))
           e == x.exp - y.exp
       IN  IF NLess(m, n)
             THEN Round(SignOf(x, y), e - 1,
                        <<1>> \o DivDigits(NSub(Append(m, 0), n), n, 14))
             ELSE Round(SignOf(x, y), e,
                        <<1>> \o DivDigits(NSub(m, n), n, 14))

\* The float a decimal literal n/10 denotes (0.1, 0.7): the double nearest
\* to it, which is what the division of n by 10 gives.
Tenths(n) == FDiv(Dyadic(n, 0), Dyadic(10, 0))

\* The inputs of the pure functions run over the halves -MaxNum/2 .. MaxNum/2,
\* the numbers in request bodies over the halves -MaxApiNum/2 .. MaxApiNum/2,
\* both with -0.0 and 2^1023 from the end of the range, and for the pure
\* functions 0.1, 0.2, 0.3, 0.7 and 1.1, which are no binary fractions,
\* -2^1023, 2^-1024, the infinities and nan.
MaxNum == 3
MaxApiNum == 1
Top == Dyadic(1, 1023)
Nums == { Dyadic(n, -1) : n \in -MaxNum..MaxNum }
          \cup { Tenths(n) : n \in {1, 2, 3, 7, 11} }
          \cup {NegZero, Top, FNeg(Top), Dyadic(1, -1024), Inf, NegInf, NaN}
ApiNums ==
  { Dyadic(n, -1) : n \in -MaxApiNum..MaxApiNum } \cup {NegZero, Top}

---------------------------------------------------------------------------
(* src/app/calculator.py                                                   *)

\* How a Python call ends.
Return(v) == [kind |-> "return", value |-> v]
Raise(e)  == [kind |-> "raise", exc |-> e.exc, message |-> e.message]

DefaultMessage == "Division by zero is not allowed"

\* class DivisionByZeroError(Exception): __init__(self, message=<default>)
DivisionByZeroError(message) ==
  [exc |-> "DivisionByZeroError", message |-> message]

\* A slip: the body of subtract pasted into add.
add_pasted(a, b) == Return(FSub(a, b))

add(a, b) == Return(FAdd(a, b))

subtract(a, b) == Return(FSub(a, b))

multiply(a, b) == Return(FMul(a, b))

\* A slip: the guard left out, so that Python's own ZeroDivisionError is
\* what a zero divisor raises.
divide_unguarded(a, b) ==
  IF FDiv(a, b).class = "ZeroDivisionError"
    THEN Raise([exc |-> "ZeroDivisionError", message |-> "float division by zero"])
    ELSE Return(FDiv(a, b))

\* if b == 0 is true of 0.0 and of -0.0.
divide(a, b) ==
  IF IsZero(b)
    THEN Raise(DivisionByZeroError(DefaultMessage))
    ELSE Return(FDiv(a, b))

NoCall == [fn |-> "none", a |-> Zero, b |-> Zero]
NoRet  == [kind |-> "none"]

CalcIdle == call = NoCall /\ ret = NoRet

CallAdd ==
  /\ UNCHANGED <<apiVars, runVars, aggVars, renderVars>>
  /\ call = NoCall
  /\ \E a \in Nums, b \in Nums :
       /\ call' = [fn |-> "add", a |-> a, b |-> b]
       /\ ret' = add(a, b)

CallSubtract ==
  /\ UNCHANGED <<apiVars, runVars, aggVars, renderVars>>
  /\ call = NoCall
  /\ \E a \in Nums, b \in Nums :
       /\ call' = [fn |-> "subtract", a |-> a, b |-> b]
       /\ ret' = subtract(a, b)

CallMultiply ==
  /\ UNCHANGED <<apiVars, runVars, aggVars, renderVars>>
  /\ call = NoCall
  /\ \E a \in Nums, b \in Nums :
       /\ call' = [fn |-> "multiply", a |-> a, b |-> b]
       /\ ret' = multiply(a, b)

CallDivide ==
  /\ UNCHANGED <<apiVars, runVars, aggVars, renderVars>>
  /\ call = NoCall
  /\ \E a \in Nums, b \in Nums :
       /\ call' = [fn |-> "divide", a |-> a, b |-> b]
       /\ ret' = divide(a, b)

---------------------------------------------------------------------------
(* src/app/main.py                                                         *)

\* A field of a JSON body, by what the float validation of the framework
\* (pydantic, a: float, not strict) makes of it: absent; a value it cannot
\* read as a float (null, a string that spells no number, a list, an
\* object); a string that spells the float x ("0.5", " 5 ", "1e3", "inf");
\* true or false, read as 1.0 and 0.0; a number.
Missing   == [kind |-> "missing", v |-> Zero]
NotNumber == [kind |-> "unreadable", v |-> Zero]
NumStr(x) == [kind |-> "string", v |-> x]
Bool(b)   == [kind |-> "boolean", v |-> IF b THEN Dyadic(1, 0) ELSE Zero]
Num(x)    == [kind |-> "number", v |-> x]
Fields    ==
  {Missing, NotNumber, NumStr(Dyadic(1, -1)), NumStr(Inf), Bool(TRUE),
   Bool(FALSE)}
    \cup { Num(x) : x \in ApiNums }
Bodies    == [a : Fields, b : Fields]
NoBody    == [a |-> Missing, b |-> Missing]

\* The routes of the API; GET / and /static, which serve files, are left out.
PostRoutes == {"/add", "/sub", "/mul", "/div"}
Requests ==
  { [route |-> "/health", body |-> NoBody] }
    \cup [route : PostRoutes, body : Bodies]

\* Response bodies are all of one shape: the key, and its text or its number.
ErrorBody == [key |-> "", text |-> "Internal Server Error", num |-> Zero]

Answer(status, body, fns) ==
  [status |-> status, body |-> body, invoked |-> fns]

\* The kinds of field the float validation reads as a float.
Readable == {"number", "string", "boolean"}

\* A slip: b declared with a default (b: float = 0), so that only a is
\* required.
OperationRequest_b_optional(body) ==
  body.a.kind \in Readable /\ body.b.kind \in Readable \cup {"missing"}

\* class OperationRequest(BaseModel): a: float, b: float.
\* The body is accepted when both fields are present and are read as floats.
OperationRequest(body) ==
  body.a.kind \in Readable /\ body.b.kind \in Readable

\* class OperationResponse(BaseModel): result: float
OperationResponse(result) == [key |-> "result", text |-> "", num |-> result]

\* class HealthResponse(BaseModel): status: str
HealthResponse(status) == [key |-> "status", text |-> status, num |-> Zero]

\* An exception no handler catches leaves the framework as a 500.
Unhandled(fns) == Answer(500, ErrorBody, fns)

\* The framework renders the model a handler returned as JSON, which has no
\* infinity and no nan: json.dumps(..., allow_nan=False) raises ValueError
\* after the handler has returned.
JSONResponse(content, fns) ==
  IF IsFinite(content.num) THEN Answer(200, content, fns) ELSE Unhandled(fns)

\* raise HTTPException(status_code, detail)
HTTPException(status_code, detail, fns) ==
  Answer(status_code, [key |-> "detail", text |-> detail, num |-> Zero], fns)

\* A slip: the probe made to report the outcome of the last request.
health_check_last_outcome ==
  IF response.status >= 400
    THEN Answer(503, HealthResponse("degraded"), <<>>)
    ELSE Answer(200, HealthResponse("ok"), <<>>)

health_check == JSONResponse(HealthResponse("ok"), <<>>)

add_numbers(body) ==
  LET result == add(body.a.v, body.b.v)
  IN  IF result.kind = "raise"
        THEN Unhandled(<<"add">>)
        ELSE JSONResponse(OperationResponse(result.value), <<"add">>)

subtract_numbers(body) ==
  LET result == subtract(body.a.v, body.b.v)
  IN  IF result.kind = "raise"
        THEN Unhandled(<<"subtract">>)
        ELSE JSONResponse(OperationResponse(result.value), <<"subtract">>)

multiply_numbers(body) ==
  LET result == multiply(body.a.v, body.b.v)
  IN  IF result.kind = "raise"
        THEN Unhandled(<<"multiply">>)
        ELSE JSONResponse(OperationResponse(result.value), <<"multiply">>)

\* A slip: the last domain error kept at module level and raised again by
\* the next call of the handler.
divide_numbers_sticky(body) ==
  IF response.status = 400
    THEN HTTPException(400, response.body.text, <<>>)
    ELSE LET result == divide(body.a.v, body.b.v)
         IN  IF result.kind = "return"
               THEN JSONResponse(OperationResponse(result.value), <<"divide">>)
               ELSE HTTPException(400, result.message, <<"divide">>)

divide_numbers(body) ==
  LET result == divide(body.a.v, body.b.v)
  IN  IF result.kind = "return"
        THEN JSONResponse(OperationResponse(result.value), <<"divide">>)
        ELSE IF result.exc = "DivisionByZeroError"
          THEN HTTPException(400, result.message, <<"divide">>)
          ELSE Unhandled(<<"divide">>)

\* The framework binds the body to OperationRequest before it calls the
\* handler; a body it rejects is answered 422 and the handler never runs.
RequestValidationError ==
  Answer(422, [key |-> "detail", text |-> "validation errors", num |-> Zero],
         <<>>)

\* The route table built by the @app.get / @app.post decorators.
Respond(req) ==
  IF req.route = "/health"
    THEN health_check
    ELSE IF ~OperationRequest(req.body)
      THEN RequestValidationError
      ELSE CASE req.route = "/add" -> add_numbers(req.body)
             [] req.route = "/sub" -> subtract_numbers(req.body)
             [] req.route = "/mul" -> multiply_numbers(req.body)
             [] req.route = "/div" -> divide_numbers(req.body)

\* class Settings, read from the environment once (get_settings is cached).
Settings(env, debug) ==
  [app_name |-> "Calculator WebApp", env |-> env, debug |-> debug,
   host |-> "0.0.0.0", port |-> 8000]
SettingsValues == { Settings("development", d) : d \in BOOLEAN }

NoRequest  == [route |-> "", body |-> NoBody]
NoResponse == [status |-> 0, body |-> ErrorBody]

ApiInit ==
  /\ settings \in SettingsValues
  /\ request = NoRequest
  /\ response = NoResponse
  /\ invoked = <<>>
  /\ prev_status = 0

ApiIdle ==
  /\ settings = Settings("development", FALSE)
  /\ request = NoRequest
  /\ response = NoResponse
  /\ invoked = <<>>
  /\ prev_status = 0

\* The service answers the request: the response and the functions invoked
\* are the handler's, the service's own state is left as it was.
Served ==
  \E r \in {Respond(request')} :
    /\ response' = [status |-> r.status, body |-> r.body]
    /\ invoked' = r.invoked
    /\ prev_status' = response.status
    /\ UNCHANGED <<settings, calcVars, runVars, aggVars, renderVars>>

GetHealth ==
  /\ request' = [route |-> "/health", body |-> NoBody]
  /\ Served

PostAdd ==
  \E body \in Bodies :
    /\ request' = [route |-> "/add", body |-> body]
    /\ Served

PostSub ==
  \E body \in Bodies :
    /\ request' = [route |-> "/sub", body |-> body]
    /\ Served

PostMul ==
  \E body \in Bodies :
    /\ request' = [route |-> "/mul", body |-> body]
    /\ Served

PostDiv ==
  \E body \in Bodies :
    /\ request' = [route |-> "/div", body |-> body]
    /\ Served

---------------------------------------------------------------------------
(* src/metrics/main.py: main, collect_all_metrics and _get_paginated       *)

PER_PAGE == 100
SAFETY_LIMIT == 10

\* What response.json() can give (the annotation of _get is Any): a list of
\* len items, an object of len keys, null or a number other than 0; or the
\* body is no JSON at all (an empty body, a page of HTML).  What iterating
\* an object gives is its keys, strings ("key").  The items of a list are
\* all of one kind, each kind one JSON value:
\*   "record"   {"name": "CD - Azure Web App", "conclusion": "success",
\*               "created_at": "2999-01-01T00:00:00Z",
\*               "run_started_at": "2999-01-01T00:00:00Z",
\*               "updated_at": "2999-01-01T00:05:00Z",
\*               "user": {"login": "dependabot[bot]"},
\*               "merged_at": "2999-01-01T01:00:00Z"},
\*              which every aggregation can read, as a run and as a pull
\*              request;
\*   "named"    {"name": "CD - Azure Web App"} and no other key;
\*   "nulls"    the record with null for the value of every key;
\*   "undated"  the record with "created_at": null;
\*   "naive"    the record with "merged_at": "2999-01-01T01:00:00", a time
\*              without a zone.
Array(of, n) == [json |-> "array",  of |-> of,    len |-> n]
Object(n)    == [json |-> "object", of |-> "key", len |-> n]
Null         == [json |-> "null",   of |-> "",    len |-> 0]
Number       == [json |-> "number", of |-> "",    len |-> 0]
NotJson      == [json |-> "none",   of |-> "",    len |-> 0]

\* What iterating the JSON value of page p gives: the items of a list, the
\* keys of an object, each with the page it came on and its place there.
Elements(p, v) == [i \in 1..v.len |-> [page |-> p, index |-> i, is |-> v.of]]

\* How a GET may end: with status 200 and a list of 0, 1, PER_PAGE - 1 or
\* PER_PAGE records, a list of one item of another kind, an object (the
\* shape {"total_count": ..., "workflow_runs": [...]}), an empty object,
\* null, a number or a body that is no JSON; with 300 and a list of one
\* record, a status that is no 2xx and that raise_for_status lets pass;
\* with 304, which has no body; with an error status and the object that
\* describes the error; or with no answer at all (no connection, or no
\* byte within timeout=30), which has no status.
Unanswered == [status |-> 0, body |-> NotJson]
Answers ==
  [status : {200},
   body : { Array("record", n) : n \in {0, 1, PER_PAGE - 1, PER_PAGE} }]
    \cup [status : {200},
          body : { Array(of, 1) : of \in {"named", "nulls", "undated",
                                          "naive"} }]
    \cup [status : {200},
          body : {Object(0), Object(2), Null, Number, NotJson}]
    \cup [status : {300}, body : {Array("record", 1)}]
    \cup [status : {304}, body : {NotJson}]
    \cup [status : {404, 500}, body : {Object(2)}]
    \cup {Unanswered}

\* response.raise_for_status(): raises for a 4xx or 5xx status.
raise_for_status(status) == status >= 400 /\ status < 600

\* A slip: the failure swallowed (except HTTPError: return []).
get_swallowed(page, answer) ==
  IF answer = Unanswered
    THEN [kind |-> "raise", exc |-> "RequestException", value |-> Null]
  ELSE IF raise_for_status(answer.status)
    THEN [kind |-> "return", exc |-> "", value |-> Array("record", 0)]
  ELSE IF answer.body = NotJson
    THEN [kind |-> "raise", exc |-> "JSONDecodeError", value |-> Null]
    ELSE [kind |-> "return", exc |-> "", value |-> answer.body]

\* _get: the exception requests.get raises when no answer comes
\* (ConnectionError, Timeout), the HTTPError raise_for_status raises, the
\* JSONDecodeError response.json() raises for a body that is no JSON, or
\* the JSON value of the body.
get(page, answer) ==
  IF answer = Unanswered
    THEN [kind |-> "raise", exc |-> "RequestException", value |-> Null]
  ELSE IF raise_for_status(answer.status)
    THEN [kind |-> "raise", exc |-> "HTTPError", value |-> Null]
  ELSE IF answer.body = NotJson
    THEN [kind |-> "raise", exc |-> "JSONDecodeError", value |-> Null]
    ELSE [kind |-> "return", exc |-> "", value |-> answer.body]

\* The params _get_paginated starts from, whatever the caller passed.
first_params == [per_page |-> PER_PAGE, page |-> 1]

\* not items: null, an empty list and an empty object are false.
falsy(v) == v.json = "null" \/ (v.json \in {"array", "object"} /\ v.len = 0)

\* A slip: the safety limit tested with >= in place of >.
loop_body_off_by_one(p, acc, items) ==
  IF falsy(items)
    THEN [kind |-> "return", exc |-> "", again |-> FALSE, params |-> p,
          all_items |-> acc]
  ELSE IF items.json = "number"
    THEN [kind |-> "raise", exc |-> "TypeError", again |-> FALSE,
          params |-> p, all_items |-> acc]
  ELSE IF items.len < PER_PAGE
    THEN [kind |-> "return", exc |-> "", again |-> FALSE, params |-> p,
          all_items |-> acc \o Elements(p.page, items)]
    ELSE LET q == [p EXCEPT !.page = p.page + 1]
         IN  [kind |-> "return", exc |-> "",
              again |-> ~(q.page >= SAFETY_LIMIT), params |-> q,
              all_items |-> acc \o Elements(p.page, items)]

\* One pass through the body of the while loop of _get_paginated, after
\* _get has returned items: the accumulator, the params and whether the
\* loop goes on.  all_items.extend(items) takes what iterating items gives
\* and raises TypeError for a number, which cannot be iterated.
loop_body(p, acc, items) ==
  IF falsy(items)
    THEN [kind |-> "return", exc |-> "", again |-> FALSE, params |-> p,
          all_items |-> acc]
  ELSE IF items.json = "number"
    THEN [kind |-> "raise", exc |-> "TypeError", again |-> FALSE,
          params |-> p, all_items |-> acc]
  ELSE IF items.len < PER_PAGE
    THEN [kind |-> "return", exc |-> "", again |-> FALSE, params |-> p,
          all_items |-> acc \o Elements(p.page, items)]
    ELSE LET q == [p EXCEPT !.page = p.page + 1]
         IN  [kind |-> "return", exc |-> "",
              again |-> ~(q.page > SAFETY_LIMIT), params |-> q,
              all_items |-> acc \o Elements(p.page, items)]

\* The _get_paginated calls of one run, in the order collect_all_metrics
\* makes them, each with the group whose aggregation makes it and whether
\* the aggregation is complete once the call returns.
Fetches ==
  << [group |-> "dora",          endpoint |-> "actions/runs", done |-> TRUE],
     [group |-> "pull_requests", endpoint |-> "pulls",        done |-> TRUE],
     [group |-> "ci_health",     endpoint |-> "actions/runs", done |-> TRUE],
     [group |-> "deploy_health", endpoint |-> "actions/runs", done |-> TRUE],
     [group |-> "security",      endpoint |-> "actions/runs", done |-> TRUE],
     [group |-> "dependabot",    endpoint |-> "pulls",        done |-> FALSE],
     [group |-> "dependabot",    endpoint |-> "pulls",        done |-> TRUE] >>

\* What the aggregation does with the list a call of _get_paginated
\* returned, before it returns or calls _get_paginated again: the first
\* exception on its way through the code, or none.
\*   get_workflow_runs (dora, ci_health, deploy_health, security) calls
\*   run.get("name", "").lower() on every item: AttributeError at line 70
\*   for a string, which has no get, and for a null name.  Every other item
\*   here is named "CD - Azure Web App": the runs of "CI" and "Security"
\*   are none, and ci_health and security go on without reading any.
\*   collect_dora_metrics reads r["conclusion"] of every run: KeyError at
\*   line 78 for the item that has only its name; it then sorts the runs by
\*   x["created_at"]: TypeError at line 84 when there are two or more and
\*   one is null; no run has failed, so no time is parsed.
\*   collect_deploy_duration_metrics reads with .get and skips the item
\*   that has only its name; the times it parses are well-formed.
\*   collect_pr_metrics takes the items in turn (line 114, 115): .get on a
\*   string is an AttributeError, a null or absent merged_at is skipped, a
\*   merged_at without a zone is a TypeError when compared with
\*   window_start; it then parses created_at of the merged ones:
\*   AttributeError at line 119 for null.
\*   collect_dependabot_metrics calls pr.get("user", {}).get("login") on
\*   every item of its first list: AttributeError at line 191 for a string
\*   and for a null user; on its second list it does the same and compares
\*   merged_at with window_start, item by item (lines 201 to 203).
collect(f, items) ==
  LET kinds == { items[i].is : i \in 1..Len(items) }
      first(bad) ==
        IF kinds \cap bad = {} THEN ""
        ELSE items[CHOOSE i \in 1..Len(items) :
                     /\ items[i].is \in bad
                     /\ \A j \in 1..(i - 1) : items[j].is \notin bad].is
      raise(exc) == [kind |-> "raise", exc |-> exc]
      return == [kind |-> "return", exc |-> ""]
  IN  IF f.endpoint = "actions/runs"
        THEN IF kinds \cap {"key", "nulls"} # {} THEN raise("AttributeError")
             ELSE IF f.group # "dora" THEN return
             ELSE IF "named" \in kinds THEN raise("KeyError")
             ELSE IF Len(items) >= 2 /\ "undated" \in kinds
               THEN raise("TypeError")
             ELSE return
      ELSE IF f.group = "pull_requests"
        THEN IF first({"key", "naive"}) = "key" THEN raise("AttributeError")
             ELSE IF first({"key", "naive"}) = "naive" THEN raise("TypeError")
             ELSE IF "undated" \in kinds THEN raise("AttributeError")
             ELSE return
      ELSE IF ~f.done
        THEN IF kinds \cap {"key", "nulls"} # {} THEN raise("AttributeError")
             ELSE return
      ELSE IF first({"key", "nulls", "naive"}) = "naive"
        THEN raise("TypeError")
      ELSE IF first({"key", "nulls", "naive"}) # ""
        THEN raise("AttributeError")
      ELSE return

\* The keys of the mapping collect_all_metrics returns, in the order the
\* dict display evaluates them.
Report(groups) ==
  [keys |-> <<"generated_at", "window_days", "repository">> \o groups]
NoMetrics == [keys |-> <<>>]

RunInit ==
  /\ pc = "loop"
  /\ fetch = 1
  /\ params = first_params
  /\ all_items = <<>>
  /\ in_flight = {}
  /\ gets = <<>>
  /\ collected = <<>>
  /\ metrics = NoMetrics
  /\ site = <<>>
  /\ failed = FALSE
  /\ prev_page = 0

RunIdle ==
  /\ pc = "idle"
  /\ fetch = 0
  /\ params = first_params
  /\ all_items = <<>>
  /\ in_flight = {}
  /\ gets = <<>>
  /\ collected = <<>>
  /\ metrics = NoMetrics
  /\ site = <<>>
  /\ failed = FALSE
  /\ prev_page = 0

\* _get, first half: requests.get sends the request for the current page.
get_send ==
  /\ pc = "loop"
  /\ in_flight' = in_flight \cup {params.page}
  /\ pc' = "wait"
  /\ UNCHANGED <<fetch, params, all_items, gets, collected, metrics, site,
                 failed, prev_page>>
  /\ UNCHANGED <<calcVars, apiVars, aggVars, renderVars>>

\* _get, second half, and the rest of the loop body: the request ends.  An
\* exception of _get (no answer, an error status, a body that is no JSON)
\* or of the loop body goes up through _get_paginated, the aggregation,
\* collect_all_metrics and main, which catch nothing; otherwise the loop
\* body runs to the next _get or to the return.
get_answered ==
  /\ pc = "wait"
  /\ \E answer \in Answers :
       LET r == get(params.page, answer)
           b == loop_body(params, all_items, r.value)
       IN  /\ in_flight' = in_flight \ {params.page}
           /\ gets' = Append(gets, [page |-> params.page,
                                    per_page |-> params.per_page,
                                    status |-> answer.status,
                                    body |-> answer.body])
           /\ failed' = (failed \/ answer.status < 200
                                \/ answer.status >= 400
                                \/ answer.body = NotJson)
           /\ IF r.kind = "raise" \/ b.kind = "raise"
                THEN /\ pc' = "raised"
                     /\ UNCHANGED <<params, all_items>>
                ELSE /\ pc' = IF b.again THEN "loop" ELSE "returned"
                     /\ params' = b.params
                     /\ all_items' = b.all_items
  /\ UNCHANGED <<fetch, collected, metrics, site, prev_page>>
  /\ UNCHANGED <<calcVars, apiVars, aggVars, renderVars>>

\* A slip: the accumulator made a mutable default argument
\* (all_items: list = []), one list shared by every call.
aggregate_shared_list ==
  /\ pc = "returned"
  /\ LET f == Fetches[fetch]
         groups == IF f.done THEN Append(collected, f.group) ELSE collected
     IN  IF collect(f, all_items).kind = "raise"
           THEN /\ pc' = "raised"
                /\ UNCHANGED <<fetch, params, all_items, gets, collected,
                               metrics, prev_page>>
           ELSE /\ collected' = groups
                /\ IF fetch < Len(Fetches)
                     THEN /\ fetch' = fetch + 1
                          /\ pc' = "loop"
                          /\ params' = first_params
                          /\ gets' = <<>>
                          /\ prev_page' = params.page
                          /\ UNCHANGED <<metrics, all_items>>
                     ELSE /\ pc' = "write"
                          /\ metrics' = Report(groups)
                          /\ UNCHANGED <<fetch, params, all_items, gets,
                                         prev_page>>
  /\ UNCHANGED <<in_flight, site, failed>>
  /\ UNCHANGED <<calcVars, apiVars, aggVars, renderVars>>

\* _get_paginated has returned: the aggregation works on the list and
\* raises, which nothing up to main catches, or reduces it to its group, or
\* (the first call of collect_dependabot_metrics) goes on to its second
\* call; after the last group collect_all_metrics returns the report to
\* main.
aggregate ==
  /\ pc = "returned"
  /\ LET f == Fetches[fetch]
         groups == IF f.done THEN Append(collected, f.group) ELSE collected
     IN  IF collect(f, all_items).kind = "raise"
           THEN /\ pc' = "raised"
                /\ UNCHANGED <<fetch, params, all_items, gets, collected,
                               metrics, prev_page>>
           ELSE /\ collected' = groups
                /\ IF fetch < Len(Fetches)
                     THEN /\ fetch' = fetch + 1
                          /\ pc' = "loop"
                          /\ params' = first_params
                          /\ all_items' = <<>>
                          /\ gets' = <<>>
                          /\ prev_page' = params.page
                          /\ UNCHANGED metrics
                     ELSE /\ pc' = "write"
                          /\ metrics' = Report(groups)
                          /\ UNCHANGED <<fetch, params, all_items, gets,
                                         prev_page>>
  /\ UNCHANGED <<in_flight, site, failed>>
  /\ UNCHANGED <<calcVars, apiVars, aggVars, renderVars>>

\* main: os.makedirs("site") and json.dump(metrics) into site/metrics.json.
main_write ==
  /\ pc = "write"
  /\ site' = Append(site, [file |-> "site/metrics.json", content |-> metrics])
  /\ pc' = "done"
  /\ UNCHANGED <<fetch, params, all_items, in_flight, gets, collected,
                 metrics, failed, prev_page>>
  /\ UNCHANGED <<calcVars, apiVars, aggVars, renderVars>>

---------------------------------------------------------------------------
(* src/metrics/main.py: the aggregations                                   *)
(*                                                                         *)
(* Timestamps are whole seconds since some instant, so that the order of   *)
(* the created_at strings is the order of the numbers.  Of each mapping    *)
(* returned, the counts, the rates, mttr_hours, the median and             *)
(* security_last_conclusion are modelled; the averages                     *)
(* (pr_lead_time_avg_hours, ci_avg_duration_minutes,                       *)
(* deploy_avg_duration_minutes) and the Dependabot counts are not.         *)
(*                                                                         *)
(* round(x, 2) goes by the bits of the double x, and count / total * 100   *)
(* rounds twice, so the floats of the aggregations, none of them negative, *)
(* are kept bit by bit: zero, or [exp |-> e, bits |-> b] for the number    *)
(* whose 53 significant bits are b, the first of them, a 1, worth 2^e.     *)

Dbl(e, b) == [exp |-> e, bits |-> b]
FZero == Dbl(0, <<>>)

\* Python's None where a float may stand.
None == [py |-> "None"]

\* The truth value of a float or None, as in "round(x, 2) if x else None".
Truthy(x) == x # None /\ x # FZero

\* x < y
Less(x, y) ==
  IF x = FZero THEN y # FZero
  ELSE IF y = FZero THEN FALSE
  ELSE \/ x.exp < y.exp
       \/ /\ x.exp = y.exp
          /\ \E i \in 1..53 : /\ x.bits[i] < y.bits[i]
                              /\ \A j \in 1..(i - 1) : x.bits[j] = y.bits[j]

\* The double nearest to the number with the digits b (53 or more, the
\* first a 1 worth 2^e): round to nearest, a tie to the even mantissa.
RoundBits(e, b) ==
  LET keep == SubSeq(b, 1, 53)
      rest == SubSeq(b, 54, Len(b))
      guard == rest # <<>> /\ rest[1] = 1
      sticky == \E i \in 2..Len(rest) : rest[i] = 1
      up == guard /\ (sticky \/ keep[53] = 1)
      inc == Incr(keep)
  IN  IF ~up THEN Dbl(e, keep)
      ELSE IF inc[1] = 1 THEN Dbl(e, inc)
      ELSE Dbl(e + 1, <<1>> \o SubSeq(inc, 1, 52))

\* The next 4 n binary digits of r / q, where 0 <= r < q, four at a time,
\* and one digit more that tells whether anything is left after them.
RECURSIVE DivBits(_, _, _)
DivBits(r, q, n) ==
  IF n = 0 THEN <<IF r > 0 THEN 1 ELSE 0>>
  ELSE Nibble((16 * r) \div q) \o DivBits((16 * r) % q, q, n - 1)

\* The double nearest to p / q * 2^e, for p > 0 and q > 0: p or q is
\* doubled until q <= p < 2 q, which makes the first digit a 1 worth 2^e.
RECURSIVE Quotient(_, _, _)
Quotient(p, q, e) ==
  IF p >= 2 * q THEN Quotient(p, 2 * q, e + 1)
  ELSE IF p < q THEN Quotient(2 * p, q, e - 1)
  ELSE RoundBits(e, <<1>> \o DivBits(p - q, q, 14))

\* p / q in Python, p >= 0 and q > 0 whole numbers (as ints or as floats):
\* the double nearest to the quotient.
TrueDiv(p, q) == IF p = 0 THEN FZero ELSE Quotient(p, q, 0)

\* The digits of (the number with the digits b) * m + carry, worked out
\* four digits at a time from the low end.
RECURSIVE Times(_, _, _)
Times(b, m, carry) ==
  IF Len(b) < 4 THEN Binary(Value(b) * m + carry)
  ELSE LET n == Len(b)
           t == (8 * b[n - 3] + 4 * b[n - 2] + 2 * b[n - 1] + b[n]) * m + carry
       IN  Times(SubSeq(b, 1, n - 4), m, t \div 16) \o Nibble(t % 16)

\* x * m in Python, m > 0 a whole number: the double nearest to the product.
TimesInt(x, m) ==
  IF x = FZero THEN FZero
  ELSE LET product == Times(x.bits, m, 0)
       IN  RoundBits(x.exp + Len(product) - 53, product)

\* round(x, 2): the double nearest to k / 100, where k is the whole number
\* nearest to the exact value of the double x times 100, a tie (which
\* only a double that is itself the midpoint makes) going to the even k.
round2(x) ==
  IF x = FZero THEN FZero
  ELSE LET hundredths == Times(x.bits, 100, 0)
           top == x.exp + Len(hundredths) - 53
           whole == IF top >= 0 THEN Value(SubSeq(hundredths, 1, top + 1)) ELSE 0
           fraction == IF top >= 0
                         THEN SubSeq(hundredths, top + 2, Len(hundredths))
                         ELSE hundredths
           half == IF top >= 0 THEN fraction # <<>> /\ fraction[1] = 1
                   ELSE top = -1
           more == \E i \in 2..Len(fraction) : fraction[i] = 1
           up == half /\ (more \/ whole % 2 = 1)
       IN  TrueDiv(IF up THEN whole + 1 ELSE whole, 100)

\* (later - earlier).total_seconds() / 3600, the timestamps in seconds.
hours_between(earlier, later) == TrueDiv(later - earlier, 3600)

\* A name is the sequence of its characters.
Upper == <<"A", "B", "C", "D", "E", "F", "G", "H", "I", "J", "K", "L", "M",
           "N", "O", "P", "Q", "R", "S", "T", "U", "V", "W", "X", "Y", "Z">>
Lower == <<"a", "b", "c", "d", "e", "f", "g", "h", "i", "j", "k", "l", "m",
           "n", "o", "p", "q", "r", "s", "t", "u", "v", "w", "x", "y", "z">>

Capitals == { Upper[k] : k \in 1..26 }
Small == [c \in Capitals |-> Lower[CHOOSE k \in 1..26 : Upper[k] = c]]

\* str.lower(), on names of ASCII characters: every capital letter becomes
\* its small letter, every other character stays.
lower(name) ==
  [i \in 1..Len(name) |->
     IF name[i] \in Capitals THEN Small[name[i]] ELSE name[i]]

\* The names of the workflows, as the collector has them.
CD_WORKFLOW == <<"C", "D", " ", "-", " ", "A", "z", "u", "r", "e", " ",
                 "W", "e", "b", " ", "A", "p", "p">>
CI_WORKFLOW == <<"C", "I">>
SECURITY_WORKFLOW == <<"S", "e", "c", "u", "r", "i", "t", "y">>

\* sum(1 for r in runs if r["conclusion"] == conclusion)
RECURSIVE count(_, _)
count(runs, conclusion) ==
  IF runs = <<>> THEN 0
  ELSE (IF Head(runs).conclusion = conclusion THEN 1 ELSE 0)
         + count(Tail(runs), conclusion)

\* sorted(runs, key=created_at): stable, so runs created at the same time
\* keep the order they were fetched in.
RECURSIVE insert_by_created_at(_, _)
insert_by_created_at(run, runs) ==
  IF runs = <<>> THEN <<run>>
  ELSE IF Head(runs).created_at <= run.created_at
    THEN <<Head(runs)>> \o insert_by_created_at(run, Tail(runs))
    ELSE <<run>> \o runs

RECURSIVE sorted_by_created_at(_)
sorted_by_created_at(runs) ==
  IF runs = <<>> THEN <<>>
  ELSE insert_by_created_at(runs[Len(runs)],
                            sorted_by_created_at(SubSeq(runs, 1, Len(runs) - 1)))

\* sorted(runs, key=created_at, reverse=True): stable as well.
RECURSIVE insert_by_created_at_reverse(_, _)
insert_by_created_at_reverse(run, runs) ==
  IF runs = <<>> THEN <<run>>
  ELSE IF Head(runs).created_at >= run.created_at
    THEN <<Head(runs)>> \o insert_by_created_at_reverse(run, Tail(runs))
    ELSE <<run>> \o runs

RECURSIVE sorted_by_created_at_reverse(_)
sorted_by_created_at_reverse(runs) ==
  IF runs = <<>> THEN <<>>
  ELSE insert_by_created_at_reverse(runs[Len(runs)],
         sorted_by_created_at_reverse(SubSeq(runs, 1, Len(runs) - 1)))

\* sorted(lead_times)
RECURSIVE insert_float(_, _)
insert_float(x, xs) ==
  IF xs = <<>> THEN <<x>>
  ELSE IF ~Less(x, Head(xs))
    THEN <<Head(xs)>> \o insert_float(x, Tail(xs))
    ELSE <<x>> \o xs

RECURSIVE sorted_floats(_)
sorted_floats(xs) ==
  IF xs = <<>> THEN <<>>
  ELSE insert_float(xs[Len(xs)], sorted_floats(SubSeq(xs, 1, Len(xs) - 1)))

\* get_workflow_runs, given the runs _get_paginated returned.
get_workflow_runs(runs, workflow_name) ==
  SelectSeq(runs, LAMBDA run : lower(run.name) = lower(workflow_name))

\* A slip: an empty list counted as all successful.
rate_of_empty_100(n, total) ==
  IF total > 0 THEN TimesInt(TrueDiv(n, total), 100) ELSE TrueDiv(100, 1)

\* (count / total * 100) if total > 0 else 0: the quotient rounded to a
\* double, then the product rounded to a double.
rate(n, total) == IF total > 0 THEN TimesInt(TrueDiv(n, total), 100) ELSE FZero

\* The inner for loop of the MTTR proxy: the first success after place i.
RECURSIVE next_success(_, _)
next_success(sorted_runs, j) ==
  IF j > Len(sorted_runs) THEN 0
  ELSE IF sorted_runs[j].conclusion = "success" THEN j
  ELSE next_success(sorted_runs, j + 1)

\* The outer for loop of the MTTR proxy, from place i on: at each failure
\* it looks for a later success and stops once mttr_hours is not None.
RECURSIVE mttr_from(_, _)
mttr_from(sorted_runs, i) ==
  IF i > Len(sorted_runs) THEN None
  ELSE IF sorted_runs[i].conclusion = "failure"
    THEN LET j == next_success(sorted_runs, i + 1)
         IN  IF j # 0
               THEN hours_between(sorted_runs[i].created_at,
                                  sorted_runs[j].created_at)
               ELSE mttr_from(sorted_runs, i + 1)
    ELSE mttr_from(sorted_runs, i + 1)

collect_dora_metrics(runs) ==
  LET cd_runs == get_workflow_runs(runs, CD_WORKFLOW)
      total == Len(cd_runs)
      successful == count(cd_runs, "success")
      failures == count(cd_runs, "failure")
      change_failure_rate == rate(failures, total)
      mttr_hours == mttr_from(sorted_by_created_at(cd_runs), 1)
  IN  [deployments_total |-> total,
       deployments_successful |-> successful,
       deployments_failed |-> failures,
       change_failure_rate_percent |-> round2(change_failure_rate),
       mttr_hours |-> IF Truthy(mttr_hours) THEN round2(mttr_hours) ELSE None]

collect_ci_metrics(runs) ==
  LET ci_runs == get_workflow_runs(runs, CI_WORKFLOW)
      total == Len(ci_runs)
      successful == count(ci_runs, "success")
      success_rate == rate(successful, total)
  IN  [ci_runs_total |-> total,
       ci_success_rate_percent |-> round2(success_rate)]

collect_security_metrics(runs) ==
  LET security_runs == get_workflow_runs(runs, SECURITY_WORKFLOW)
      total == Len(security_runs)
      successful == count(security_runs, "success")
      success_rate == rate(successful, total)
      last_conclusion ==
        IF security_runs # <<>>
          THEN sorted_by_created_at_reverse(security_runs)[1].conclusion
          ELSE "None"
  IN  [security_runs_total |-> total,
       security_success_rate_percent |-> round2(success_rate),
       security_last_conclusion |-> last_conclusion]

\* No timestamp: merged_at of a pull request that was not merged.
NoTime == -1

\* The lead times of collect_pr_metrics, in hours, in the order fetched.
RECURSIVE lead_times_of(_)
lead_times_of(merged_prs) ==
  IF merged_prs = <<>> THEN <<>>
  ELSE <<hours_between(Head(merged_prs).created_at, Head(merged_prs).merged_at)>>
         \o lead_times_of(Tail(merged_prs))

collect_pr_metrics(pulls, start) ==
  LET merged_prs ==
        SelectSeq(pulls, LAMBDA pr : pr.merged_at # NoTime /\ pr.merged_at >= start)
      lead_times == lead_times_of(merged_prs)
      median_lead_time ==
        IF lead_times # <<>>
          THEN sorted_floats(lead_times)[(Len(lead_times) \div 2) + 1]
          ELSE None
  IN  [pr_throughput |-> Len(merged_prs),
       pr_lead_time_median_hours |->
         IF Truthy(median_lead_time) THEN round2(median_lead_time) ELSE None]

\* The lists an aggregation is applied to.
MaxRuns == 3
MaxPrs == 4
RunNames == {CD_WORKFLOW, <<"C", "i">>,
             <<"S", "E", "C", "U", "R", "I", "T", "Y">>}
Conclusions == {"success", "failure", "cancelled"}
RunTimes == {0, 18}
PrTimes == {0, 18, 54}
WorkflowRun == [name : RunNames, conclusion : Conclusions, created_at : RunTimes]
PullRequest ==
  { pr \in [created_at : RunTimes, merged_at : PrTimes \cup {NoTime}] :
      pr.merged_at = NoTime \/ pr.merged_at >= pr.created_at }
SeqsUpTo(S, n) == UNION { [1..k -> S] : k \in 0..n }

NoResult == [none |-> TRUE]

AggInit ==
  /\ \/ /\ all_runs \in SeqsUpTo(WorkflowRun, MaxRuns)
        /\ prs = <<>>
        /\ window_start = 0
     \/ /\ all_runs = <<>>
        /\ prs \in SeqsUpTo(PullRequest, MaxPrs)
        /\ window_start \in RunTimes
  /\ agg = "none"
  /\ summary = NoResult

AggIdle ==
  /\ all_runs = <<>>
  /\ prs = <<>>
  /\ window_start = 0
  /\ agg = "idle"
  /\ summary = NoResult

apply_collect_dora_metrics ==
  /\ agg = "none"
  /\ prs = <<>>
  /\ agg' = "dora"
  /\ summary' = collect_dora_metrics(all_runs)
  /\ UNCHANGED <<all_runs, prs, window_start, calcVars, apiVars, runVars, renderVars>>

apply_collect_ci_metrics ==
  /\ agg = "none"
  /\ prs = <<>>
  /\ agg' = "ci_health"
  /\ summary' = collect_ci_metrics(all_runs)
  /\ UNCHANGED <<all_runs, prs, window_start, calcVars, apiVars, runVars, renderVars>>

apply_collect_security_metrics ==
  /\ agg = "none"
  /\ prs = <<>>
  /\ agg' = "security"
  /\ summary' = collect_security_metrics(all_runs)
  /\ UNCHANGED <<all_runs, prs, window_start, calcVars, apiVars, runVars, renderVars>>

apply_collect_pr_metrics ==
  /\ agg = "none"
  /\ all_runs = <<>>
  /\ agg' = "pull_requests"
  /\ summary' = collect_pr_metrics(prs, window_start)
  /\ UNCHANGED <<all_runs, prs, window_start, calcVars, apiVars, runVars, renderVars>>

---------------------------------------------------------------------------
(* src/metrics/render_dashboard.py                                         *)

\* The content of a file that is not there.
Absent == "absent"

\* What templates/index.html may hold.
Templates == {"index.html v1", "index.html v2"}

\* No directory site/; and the directory site/ with index.html holding the
\* content given, or without index.html.
NoDir == [exists |-> FALSE, index |-> Absent]
Dir(content) == [exists |-> TRUE, index |-> content]

RenderInit ==
  /\ template \in Templates \cup {Absent}
  /\ site_dir \in {NoDir} \cup { Dir(c) : c \in Templates \cup {Absent} }
  /\ rendered = "no"

RenderIdle ==
  /\ template = Absent
  /\ site_dir = NoDir
  /\ rendered = "idle"

\* render_dashboard, and the main that calls it: os.makedirs makes site/
\* where there is none, then shutil.copy writes the template over
\* site/index.html, or raises FileNotFoundError when there is no template,
\* the directory made and index.html as it was.
render_dashboard ==
  /\ rendered = "no"
  /\ LET made == IF site_dir.exists THEN site_dir ELSE Dir(Absent)
     IN  IF template = Absent
           THEN /\ site_dir' = made
                /\ rendered' = "raised"
           ELSE /\ site_dir' = Dir(template)
                /\ rendered' = "done"
  /\ UNCHANGED <<template, calcVars, apiVars, runVars, aggVars>>

---------------------------------------------------------------------------
(* The specifications.                                                     *)

InitCalc == CalcIdle /\ ApiIdle /\ RunIdle /\ AggIdle /\ RenderIdle
NextCalc ==
  \/ CallAdd
  \/ CallSubtract
  \/ CallMultiply
  \/ CallDivide
SpecCalc == InitCalc /\ [][NextCalc]_vars

InitApi == CalcIdle /\ ApiInit /\ RunIdle /\ AggIdle /\ RenderIdle
NextApi ==
  \/ GetHealth
  \/ PostAdd
  \/ PostSub
  \/ PostMul
  \/ PostDiv
SpecApi == InitApi /\ [][NextApi]_vars

InitRun == CalcIdle /\ ApiIdle /\ RunInit /\ AggIdle /\ RenderIdle
NextRun ==
  \/ get_send
  \/ get_answered
  \/ aggregate
  \/ main_write
SpecRun == InitRun /\ [][NextRun]_vars

\* The run as the interpreter executes it: main is straight-line code on one
\* thread, so a step of the program that can be taken is taken.  Nothing
\* makes a request sent end: timeout=30 bounds the wait for the connection
\* and for each read, not the whole answer, so that requests.get stays
\* blocked for as long as the server goes on sending a byte now and then.
\* get_answered is left without a fairness condition.
SpecRunFair == SpecRun /\ WF_vars(get_send \/ aggregate \/ main_write)

InitAgg == CalcIdle /\ ApiIdle /\ RunIdle /\ AggInit /\ RenderIdle
NextAgg ==
  \/ apply_collect_dora_metrics
  \/ apply_collect_ci_metrics
  \/ apply_collect_security_metrics
  \/ apply_collect_pr_metrics
SpecAgg == InitAgg /\ [][NextAgg]_vars

InitRender == CalcIdle /\ ApiIdle /\ RunIdle /\ AggIdle /\ RenderInit
NextRender == render_dashboard
SpecRender == InitRender /\ [][NextRender]_vars

---------------------------------------------------------------------------
(* What the results mean as numbers, stated without the operations on      *)
(* floats: by whole-number arithmetic on the digits.  A finite float x      *)
(* that is not zero is the whole number x.bits times 2^Unit(x), with its    *)
(* sign.                                                                    *)

\* p * 2^i >= q * 2^j, for whole numbers p and q.
AtLeast(p, i, q, j) ==
  LET w == IF i < j THEN i ELSE j
  IN  ~NLess(p \o Zeros(i - w), q \o Zeros(j - w))

\* v is the double nearest to the number (p / q) * 2^k with the sign given,
\* a tie going to the double whose last digit is 0 (p and q whole numbers,
\* not zero): an infinity from 2^1024 - 2^970 on, halfway between the
\* largest double and 2^1024; zero up to 2^-1075, half the smallest double;
\* and otherwise a double no further from the number than half the distance
\* to the next double on that side, which is 2^u above it, u being the
\* exponent of its 53rd digit (-1074 for the subnormal ones), and as much
\* below it, or half as much when the double is a power of 2.
IsNearest(v, sign, p, q, k) ==
  /\ v.sign = sign
  /\ IF v.class = "inf"
       THEN AtLeast(p, k, NMul(q, [i \in 1..54 |-> 1]), 970)
     ELSE IF v.class # "finite" THEN FALSE
     ELSE IF v.bits = <<>> THEN AtLeast(q, -1075, p, k)
     ELSE LET u == IF v.exp - 52 < -1074 THEN -1074 ELSE v.exp - 52
              m == v.bits \o Zeros(Unit(v) - u)
              even == m[Len(m)] = 0
              w == (IF u < k THEN u ELSE k) - 2
              x == p \o Zeros(k - w)
              y == NMul(m, q) \o Zeros(u - w)
              above == q \o Zeros(u - 1 - w)
              below == IF v.bits = <<1>> /\ v.exp > -1022
                         THEN q \o Zeros(u - 2 - w)
                         ELSE above
          IN  /\ v.bits[1] = 1
              /\ Len(v.bits) <= 53
              /\ v.exp <= 1023
              /\ Unit(v) >= -1074
              /\ Abs(k - u) <= 300
              /\ IF x = y THEN TRUE
                 ELSE IF NLess(y, x)
                   THEN LET d == NSub(x, y)
                        IN  NLess(d, above) \/ (d = above /\ even)
                   ELSE LET d == NSub(y, x)
                        IN  NLess(d, below) \/ (d = below /\ even)

\* v is the float a + b of the finite floats a and b: the double nearest
\* to the sum.  A sum that is exactly zero is 0.0, and -0.0 when both are
\* -0.0; and where one of the two is less than 2^-64 of the other, which
\* is less than a quarter of a unit in its last place, the sum is nearest
\* to the other.
IsSum(v, a, b) ==
  IF IsZero(a) /\ IsZero(b)
    THEN v = Signed("finite", IF a.sign = 1 /\ b.sign = 1 THEN 1 ELSE 0)
  ELSE IF IsZero(a) THEN v = b
  ELSE IF IsZero(b) THEN v = a
  ELSE IF a.exp - b.exp > 64 THEN v = a
  ELSE IF b.exp - a.exp > 64 THEN v = b
  ELSE LET u == IF Unit(a) < Unit(b) THEN Unit(a) ELSE Unit(b)
           m == a.bits \o Zeros(Unit(a) - u)
           n == b.bits \o Zeros(Unit(b) - u)
       IN  IF a.sign = b.sign THEN IsNearest(v, a.sign, NAddC(m, n, 0), <<1>>, u)
           ELSE IF m = n THEN v = Signed("finite", 0)
           ELSE IF NLess(m, n) THEN IsNearest(v, b.sign, NSub(n, m), <<1>>, u)
           ELSE IsNearest(v, a.sign, NSub(m, n), <<1>>, u)

\* v is the float a - b of the finite floats a and b.
IsDifference(v, a, b) == IsSum(v, a, [b EXCEPT !.sign = 1 - b.sign])

\* v is the float a * b of the finite floats a and b: the double nearest
\* to the product, a zero when a or b is zero, negative when one of the two
\* is.
IsProduct(v, a, b) ==
  LET sign == IF a.sign = b.sign THEN 0 ELSE 1
  IN  IF IsZero(a) \/ IsZero(b) THEN v = Signed("finite", sign)
      ELSE IsNearest(v, sign, NMul(a.bits, b.bits), <<1>>, Unit(a) + Unit(b))

\* v is the float a / b of the finite floats a and b, b not zero: the
\* double nearest to the quotient, a zero when a is zero.
IsQuotient(v, a, b) ==
  LET sign == IF a.sign = b.sign THEN 0 ELSE 1
  IN  IF IsZero(a) THEN v = Signed("finite", sign)
      ELSE IsNearest(v, sign, a.bits, b.bits, Unit(a) - Unit(b))

\* v is what a / b is when a or b is an infinity or nan (b not zero): nan
\* when either is nan or both are infinities, an infinity when a is one,
\* a zero when b is one.
IsQuotientAtInfinity(v, a, b) ==
  LET sign == IF a.sign = b.sign THEN 0 ELSE 1
  IN  IF a.class = "nan" \/ b.class = "nan" THEN v.class = "nan"
      ELSE IF a.class = "inf" /\ b.class = "inf" THEN v.class = "nan"
      ELSE IF a.class = "inf" THEN v = Signed("inf", sign)
      ELSE v = Signed("finite", sign)

---------------------------------------------------------------------------
(* Claims about src/app/calculator.py, under SpecCalc.                     *)

\* C1: divide(a, b) fails with DivisionByZeroError, whose message is exactly
\* "Division by zero is not allowed", when b == 0 (0.0 or -0.0), whatever a
\* is (a == 0, the infinities and nan included), and returns a/b without an
\* error when b != 0: the double nearest to the quotient, an infinity or
\* nan where that is what a/b is.
C1_DivideByZeroFails ==
  call.fn = "divide" =>
    /\ IsZero(call.b) =>
         /\ ret.kind = "raise"
         /\ ret.exc = "DivisionByZeroError"
         /\ ret.message = "Division by zero is not allowed"
    /\ ~IsZero(call.b) =>
         /\ ret.kind = "return"
         /\ (IsFinite(call.a) /\ IsFinite(call.b)) =>
              IsQuotient(ret.value, call.a, call.b)
         /\ (~IsFinite(call.a) \/ ~IsFinite(call.b)) =>
              IsQuotientAtInfinity(ret.value, call.a, call.b)

\* C1's case: 0 divided by 0 has raised.
C1_Witness ==
  /\ call.fn = "divide"
  /\ call.a = Zero
  /\ call.b = Zero
  /\ ret.kind = "raise"

\* C9: add(a, b) is a + b and equals add(b, a); subtract(a, b) is a - b;
\* multiply(a, b) is a * b; none of the three fails, b == 0 included.  The
\* values are stated for the finite floats: the double nearest to the sum,
\* the difference, the product; for the infinities and nan the three
\* return as well.
C9_AddSubtractMultiply ==
  /\ call.fn \in {"add", "subtract", "multiply"} => ret.kind = "return"
  /\ (call.fn = "add" /\ call.a # NaN /\ call.b # NaN) =>
       ret = add(call.b, call.a)
  /\ (IsFinite(call.a) /\ IsFinite(call.b)) =>
       /\ call.fn = "add" => IsSum(ret.value, call.a, call.b)
       /\ call.fn = "subtract" => IsDifference(ret.value, call.a, call.b)
       /\ call.fn = "multiply" => IsProduct(ret.value, call.a, call.b)

\* C9's case: add has returned 0.1 + 0.2, which is the double next above
\* 0.3, for two different arguments.
C9_Witness ==
  /\ call = [fn |-> "add", a |-> Tenths(1), b |-> Tenths(2)]
  /\ ret.kind = "return"
  /\ ret.value.exp = -2
  /\ ret.value # Tenths(3)
  /\ IsSum(ret.value, call.a, call.b)

---------------------------------------------------------------------------
(* Claims about src/app/main.py, under SpecApi.                            *)

\* A field the service takes for a number: a JSON number, a string that
\* spells one, or true or false; and a body both of whose fields are.
IsNumber(field) == field.kind \in {"number", "string", "boolean"}
Valid(req) == IsNumber(req.body.a) /\ IsNumber(req.body.b)

\* C2: for every valid body {a, b}, here one with two JSON numbers, POST
\* /div answers 400 with the body {"detail": "Division by zero is not
\* allowed"} if and only if b == 0, and 200 with {"result": a/b} otherwise;
\* the domain error never leaves the handler as any other status.
C2_DivEndpoint ==
  (/\ request.route = "/div"
   /\ request.body.a.kind = "number"
   /\ request.body.b.kind = "number") =>
    /\ response.status \in {200, 400}
    /\ response.status = 400 <=> IsZero(request.body.b.v)
    /\ response.status = 400 =>
         response.body =
           [key |-> "detail", text |-> "Division by zero is not allowed",
            num |-> Zero]
    /\ response.status = 200 =>
         /\ response.body.key = "result"
         /\ (IsFinite(request.body.a.v) /\ IsFinite(request.body.b.v)) =>
              IsQuotient(response.body.num, request.body.a.v, request.body.b.v)

\* C8: on each of POST /add, /sub, /mul and /div, a body in which a or b is
\* missing or is no valid number (null, a string that spells no number, a
\* list, an object) is answered 422 and no arithmetic function is invoked
\* for it (so /div with a missing b is 422, never 400).
C8_InvalidBodyRejected ==
  (request.route \in {"/add", "/sub", "/mul", "/div"} /\ ~Valid(request)) =>
    /\ response.status = 422
    /\ invoked = <<>>

\* C8's case: POST /div with a number for a and no b has been answered 422.
C8_Witness ==
  /\ request.route = "/div"
  /\ request.body.a.kind = "number"
  /\ request.body.b.kind = "missing"
  /\ response.status = 422

\* The answer as a function of the route and the body alone: the probe's
\* constant, the rejection of a body that is not valid, and otherwise what
\* the arithmetic function makes of the two numbers, an error being a 400
\* and a result that JSON cannot hold a 500.
Determined(req) ==
  LET a == req.body.a.v
      b == req.body.b.v
      r == CASE req.route = "/add" -> add(a, b)
             [] req.route = "/sub" -> subtract(a, b)
             [] req.route = "/mul" -> multiply(a, b)
             [] req.route = "/div" -> divide(a, b)
             [] OTHER -> Return(Zero)
  IN  IF req.route = "/health"
        THEN [status |-> 200,
              body |-> [key |-> "status", text |-> "ok", num |-> Zero]]
      ELSE IF ~Valid(req)
        THEN [status |-> 422,
              body |-> [key |-> "detail", text |-> "validation errors",
                        num |-> Zero]]
      ELSE IF r.kind = "raise"
        THEN [status |-> 400,
              body |-> [key |-> "detail", text |-> r.message, num |-> Zero]]
      ELSE IF r.value.class # "finite"
        THEN [status |-> 500,
              body |-> [key |-> "", text |-> "Internal Server Error",
                        num |-> Zero]]
      ELSE [status |-> 200,
            body |-> [key |-> "result", text |-> "", num |-> r.value]]

\* C10: the response to a request is determined by its route and body
\* alone: in every state the service can reach, whatever requests came
\* before (those answered 400, 422 or 500 included), the request served,
\* which may be any request, has been answered by that one function of
\* route and body, and no handler changes the settings a later request
\* could read.
C10_RequestsIndependent ==
  /\ [](request \in Requests =>
          /\ response.status = Determined(request).status
          /\ response.body = Determined(request).body)
  /\ [][settings' = settings]_vars

\* C10's case: a POST /div answered 200 right after a request answered 400.
C10_Witness ==
  /\ prev_status = 400
  /\ request.route = "/div"
  /\ response.status = 200
  /\ response.body = Determined(request).body

HealthRequest == [route |-> "/health", body |-> NoBody]

\* C11: GET /health answers status 200 with the body {"status": "ok"} in
\* every reachable state of the service: whatever requests came before it
\* (a /div answered 400 and a body answered 422 included), that is what
\* the service answers the probe with, and what it has answered when the
\* probe was the request served.
C11_HealthAlwaysOk ==
  /\ Respond(HealthRequest).status = 200
  /\ Respond(HealthRequest).body = [key |-> "status", text |-> "ok", num |-> Zero]
  /\ request = HealthRequest =>
       /\ response.status = 200
       /\ response.body = [key |-> "status", text |-> "ok", num |-> Zero]
       /\ invoked = <<>>

\* C11's case: GET /health answered 200 right after a request answered 400
\* (only /div with b == 0 is answered so).
C11_Witness ==
  /\ prev_status = 400
  /\ request = HealthRequest
  /\ response.status = 200
  /\ response.body.text = "ok"

---------------------------------------------------------------------------
(* Claims about one run of src/metrics/main.py, under SpecRun.             *)

\* The GET g brought a page of exactly 100 items.
FullPage(g) ==
  /\ g.status \in 200..399
  /\ g.body.json \in {"array", "object"}
  /\ g.body.len = 100

\* C3: whatever pages the endpoint answers with, one call of _get_paginated
\* issues at most 10 GETs, for the pages 1, 2, ... in turn, and stops right
\* after the first page of fewer than 100 items; when every page has exactly
\* 100 items it stops after exactly 10 pages and never requests page 11.
C3_PaginationStops ==
  LET n == Len(gets)
  IN  /\ n + Cardinality(in_flight) <= 10
      /\ \A i \in 1..n : gets[i].page = i
      /\ \A q \in in_flight : q = n + 1 /\ q <= 10
      /\ \A i \in 1..(n - 1) : FullPage(gets[i])
      /\ pc \in {"loop", "wait"} =>
           /\ n < 10
           /\ \A i \in 1..n : FullPage(gets[i])
      /\ pc = "returned" =>
           /\ n >= 1
           /\ gets[n].body.len < 100 \/ n = 10
           /\ (\A i \in 1..n : FullPage(gets[i])) => n = 10

\* C3's case: a call has returned after ten full pages.
C3_Witness ==
  /\ pc = "returned"
  /\ Len(gets) = 10
  /\ \A i \in 1..10 : FullPage(gets[i])
  /\ Len(all_items) = 1000

AllKeys ==
  <<"generated_at", "window_days", "repository", "dora", "pull_requests",
    "ci_health", "deploy_health", "security", "dependabot">>

\* C4: once a GET of the run has returned a non-success status, in any
\* aggregation and on any page, the run has raised: no request is
\* outstanding, no step follows (no retry, no further GET),
\* collect_all_metrics has produced no report and site/metrics.json is not
\* written; and no report or file is ever partial.  A non-success status
\* is read as requests reads it: a status from 400 on, for which
\* raise_for_status raises and response.ok is false.  A GET that ended
\* with no answer, or with a body that is no JSON, is counted with them.
\* An answer with a status below 400 and a JSON body (200, 300) is not:
\* the code goes on with its items.
C4_FailureIsFatal ==
  /\ [](failed =>
          /\ pc = "raised"
          /\ in_flight = {}
          /\ metrics = NoMetrics
          /\ site = <<>>)
  /\ [][~failed]_vars
  /\ [](metrics # NoMetrics => metrics.keys = AllKeys)
  /\ [](\A i \in 1..Len(site) : site[i].content.keys = AllKeys)

\* C4's case: page 2 of the last call of the run was answered 500, after
\* five groups had been computed.
C4_Witness ==
  /\ failed
  /\ pc = "raised"
  /\ fetch = 7
  /\ Len(gets) = 2
  /\ gets[2].status = 500
  /\ Len(collected) = 5

SixGroups ==
  <<"dora", "pull_requests", "ci_health", "deploy_health", "security",
    "dependabot">>

\* The sequence s is the first Len(s) elements of the sequence t.
IsPrefix(s, t) == Len(s) <= Len(t) /\ \A i \in 1..Len(s) : s[i] = t[i]

Has(keys, k) == \E i \in 1..Len(keys) : keys[i] = k

\* C12: in a run in which every GET succeeds (each request sent ends and
\* _get returns its JSON), the GETs are issued strictly one at a time (a
\* request is sent only when none is outstanding, and nothing else happens
\* while one is), each of the six aggregations dora, pull_requests,
\* ci_health, deploy_health, security and dependabot runs exactly once (they
\* finish in that order, none twice, none restarted), and
\* site/metrics.json is written exactly once, only after the last
\* aggregation has finished, with all six groups, generated_at and
\* window_days present.
C12_OneReportPerRun ==
  /\ [](Cardinality(in_flight) <= 1 /\ (in_flight # {} <=> pc = "wait"))
  /\ [][in_flight' # in_flight => (in_flight = {} \/ in_flight' = {})]_vars
  /\ [](IsPrefix(collected, SixGroups))
  /\ [][fetch' # fetch => fetch' = fetch + 1]_vars
  /\ [](Len(site) <= 1)
  /\ [](site # <<>> =>
          /\ pc = "done"
          /\ collected = SixGroups
          /\ site[1].file = "site/metrics.json"
          /\ site[1].content = metrics
          /\ \A k \in {"generated_at", "window_days"} : Has(metrics.keys, k)
          /\ \A i \in 1..Len(SixGroups) : Has(metrics.keys, SixGroups[i]))
  /\ [][site' # site =>
          /\ site = <<>>
          /\ in_flight = {}
          /\ collected = SixGroups]_vars
  /\ [](pc = "done" => ~failed /\ Len(site) = 1)
  /\ ([](pc = "wait" => <>(pc # "wait")) /\ [](~failed))
       => <>(pc = "done" /\ collected = SixGroups /\ Len(site) = 1)

\* The items of the first k GETs of a call, in the order they were fetched.
RECURSIVE Fetched(_)
Fetched(k) ==
  IF k = 0 THEN <<>>
  ELSE IF gets[k].status \in 200..399
    THEN Fetched(k - 1) \o Elements(gets[k].page, gets[k].body)
    ELSE Fetched(k - 1)

\* C13: every call of _get_paginated, whatever calls came before it in the
\* run, requests page 1 first and then the pages 2, 3, ... in turn, each
\* with per_page=100, and what it has gathered, and returns, is exactly the
\* concatenation of the items of the pages fetched, in the order fetched,
\* at most 1000 items; an empty page ends the loop and adds nothing.
C13_ReturnsPagesInOrder ==
  LET n == Len(gets)
  IN  /\ \A i \in 1..n : gets[i].page = i /\ gets[i].per_page = 100
      /\ pc \in {"loop", "wait"} => params = [per_page |-> 100, page |-> n + 1]
      /\ in_flight \subseteq {n + 1}
      /\ all_items = Fetched(n)
      /\ Len(all_items) <= 1000
      /\ \A j \in 1..Len(all_items) :
           /\ all_items[j].page = ((j - 1) \div 100) + 1
           /\ all_items[j].index = ((j - 1) % 100) + 1
      /\ (n >= 1 /\ gets[n].status \in 200..399 /\ gets[n].body.len = 0) =>
           /\ pc \notin {"loop", "wait"}
           /\ all_items = Fetched(n - 1)

\* C13's case: the second call of collect_dependabot_metrics, made after a
\* call that left its params at page 11, has asked for page 1 and page 2,
\* found page 2 empty and returned the 100 items of page 1.
C13_Witness ==
  /\ fetch = 7
  /\ prev_page = 11
  /\ pc = "returned"
  /\ Len(gets) = 2
  /\ gets[1].page = 1
  /\ gets[2].body = Array("record", 0)
  /\ all_items = Elements(1, Array("record", 100))

---------------------------------------------------------------------------
(* Claims about the aggregations of src/metrics/main.py, under SpecAgg.    *)
(* The reported numbers are rounded to two decimals; a claim that gives a  *)
(* reported number as a quantity x is read as: it is the float of a        *)
(* multiple of 1/100 nearest to x.                                         *)

\* r is the float of k / 100 for a whole k, and k / 100 lies within 1/200 of
\* the fraction x = <<p, q>>, p >= 0 and q > 0.
IsRounded2(r, x) ==
  LET below == (100 * x[1]) \div x[2]
  IN  \E k \in {below, below + 1} :
        /\ r = TrueDiv(k, 100)
        /\ 2 * Abs(k * x[2] - 100 * x[1]) <= x[2]

\* The fetched runs of a workflow, by their places in all_runs.
RunsNamed(names) == { i \in 1..Len(all_runs) : all_runs[i].name \in names }
CdRuns == RunsNamed({CD_WORKFLOW})
CiRuns == RunsNamed({<<"C", "I">>, <<"C", "i">>, <<"c", "I">>, <<"c", "i">>})
SecurityRuns ==
  RunsNamed({SECURITY_WORKFLOW, <<"S", "E", "C", "U", "R", "I", "T", "Y">>,
             <<"s", "e", "c", "u", "r", "i", "t", "y">>})
Concluded(runs, c) == { i \in runs : all_runs[i].conclusion = c }

\* Run i comes before run j in ascending created_at order (runs created
\* together in the order fetched).
Before(i, j) ==
  \/ all_runs[i].created_at < all_runs[j].created_at
  \/ all_runs[i].created_at = all_runs[j].created_at /\ i < j

FirstFailure(i) ==
  /\ i \in Concluded(CdRuns, "failure")
  /\ \A k \in Concluded(CdRuns, "failure") : k = i \/ Before(i, k)

FirstSuccessAfter(i, j) ==
  /\ j \in Concluded(CdRuns, "success")
  /\ Before(i, j)
  /\ \A k \in Concluded(CdRuns, "success") : Before(i, k) => (k = j \/ Before(j, k))

\* C5: collect_dora_metrics reports as mttr_hours the hours elapsed between
\* the first failed CD run in ascending created_at order and the first
\* successful run after it in that order, and None when no failed run is
\* followed by a successful one.
C5_MttrIsElapsedTime ==
  agg = "dora" =>
    IF \E i, j \in CdRuns : FirstFailure(i) /\ FirstSuccessAfter(i, j)
      THEN \A i, j \in CdRuns :
             (FirstFailure(i) /\ FirstSuccessAfter(i, j)) =>
               IsRounded2(summary.mttr_hours,
                          <<all_runs[j].created_at - all_runs[i].created_at, 3600>>)
      ELSE summary.mttr_hours = None

\* The merged pull requests of the window, by their places in prs, and
\* their lead times in seconds.
MergedPrs ==
  { i \in 1..Len(prs) :
      prs[i].merged_at # NoTime /\ prs[i].merged_at >= window_start }
LeadSeconds(i) == prs[i].merged_at - prs[i].created_at

\* Pull request i has the lead time at index floor(n/2) of the ascending
\* list of the n lead times.
UpperMiddle(i) ==
  LET n == Cardinality(MergedPrs)
      below == { k \in MergedPrs : LeadSeconds(k) < LeadSeconds(i) }
      upto  == { k \in MergedPrs : LeadSeconds(k) <= LeadSeconds(i) }
  IN  /\ i \in MergedPrs
      /\ Cardinality(below) <= n \div 2
      /\ n \div 2 < Cardinality(upto)

\* C6: for n > 0 lead times of merged pull requests, collect_pr_metrics
\* reports as pr_lead_time_median_hours the element at index floor(n/2) of
\* their ascending list (the upper-middle one for even n), and None when
\* no pull request was merged in the window.
C6_MedianIsUpperMiddle ==
  agg = "pull_requests" =>
    IF MergedPrs = {}
      THEN summary.pr_lead_time_median_hours = None
      ELSE \A i \in MergedPrs :
             UpperMiddle(i) =>
               IsRounded2(summary.pr_lead_time_median_hours,
                          <<LeadSeconds(i), 3600>>)

\* r is the rate of n out of total: 0 for an empty list, else
\* n / total * 100, between 0 and 100.
IsRate(r, n, total) ==
  IF total = 0
    THEN r = FZero
    ELSE /\ IsRounded2(r, <<n * 100, total>>)
         /\ ~Less(r, FZero)
         /\ ~Less(TrueDiv(100, 1), r)

\* C7: each rate (change_failure_rate_percent, ci_success_rate_percent,
\* security_success_rate_percent) is 0, and no error, when the filtered list
\* of runs is empty, and otherwise matching_count / total * 100, a value
\* between 0 and 100.
C7_RatesOfEmptyListsAreZero ==
  /\ agg = "dora" =>
       /\ summary.deployments_total = Cardinality(CdRuns)
       /\ IsRate(summary.change_failure_rate_percent,
                 Cardinality(Concluded(CdRuns, "failure")), Cardinality(CdRuns))
  /\ agg = "ci_health" =>
       /\ summary.ci_runs_total = Cardinality(CiRuns)
       /\ IsRate(summary.ci_success_rate_percent,
                 Cardinality(Concluded(CiRuns, "success")), Cardinality(CiRuns))
  /\ agg = "security" =>
       /\ summary.security_runs_total = Cardinality(SecurityRuns)
       /\ IsRate(summary.security_success_rate_percent,
                 Cardinality(Concluded(SecurityRuns, "success")),
                 Cardinality(SecurityRuns))

\* C7's case: runs were fetched, none of them of the CI workflow, and the
\* rate reported is 0.
C7_Witness ==
  /\ agg = "ci_health"
  /\ all_runs # <<>>
  /\ CiRuns = {}
  /\ summary.ci_success_rate_percent = FZero

=============================================================================
